---- MODULE Spec2Model ----
(***************************************************************************)
(* Model of the vision node of face-mqtt-servo (src/src/vision_node.py):   *)
(* the frame loop VisionNode.run, the MQTT connect callback and the        *)
(* camera acquisition and teardown around the loop.                        *)
(*                                                                         *)
(* Time is counted in ticks of 100 ms read from the wall clock             *)
(* (time.time()); the clock never runs backwards.  Pixel coordinates are   *)
(* integers; cx_norm is kept as the exact fraction (x1 + x2) / (2 * W).    *)
(***************************************************************************)
EXTENDS Integers, Sequences, FiniteSets, TLC

\* ------------------------------------------------------------- constants
\* vision_node.py:189   current_time - last_publish_time >= 0.1  (in ticks)
MOVEMENT_INTERVAL == 1
\* vision_node.py:195   time.time() - last_heartbeat > 5          (in ticks)
HEARTBEAT_INTERVAL == 50
\* vision_node.py:155   pad = 20
PAD == 20
\* vision_node.py:170, 172   deadband 0.4 .. 0.6, as tenths
DEADBAND_LO == 4
DEADBAND_HI == 6
\* vision_node.py:38    indices=(0, 1, 2, 3)
CAMERA_INDICES == <<0, 1, 2, 3>>
\* vision_node.py:210   default target name
TARGET_NAME == "andrew"
TOPIC_MOVEMENT == "vision/dragonfly/movement"
TOPIC_HEARTBEAT == "vision/dragonfly/heartbeat"

\* ---------------------------------------------------------------- bounds
\* Wall-clock reading when run() starts (stands for seconds since 1970).
StartTime == 60
\* The model follows the node for this many ticks after StartTime.
Horizon == 3
\* Frame size delivered by the camera.
FrameWidth == 100
FrameHeight == 60
\* Width of the boxes the lock oracle reports.
FaceSize == 20

MaxTime == StartTime + Horizon

\* The timing specification follows the node for this many ticks, past the
\* second heartbeat of the frame loop.
TimingHorizon == 53
MaxTimingTime == StartTime + TimingHorizon

\* Clock advances, in ticks, between two frames and between two readings
\* of the clock inside one frame.
ClockSteps == {0, 1}
ClockDrifts == {0, 1}

\* Left edges of the reported boxes: centres at 0.20, 0.39, 0.40, 0.60, 0.61.
FaceLefts == {10, 29, 30, 50, 51}

\* Which camera indices can be opened on the machine.
OpenableSets == {{}, {0}, {1}, {2, 3}}

\* ----------------------------------------------------------------- types
None == [kind |-> "None"]
Unset == "UNSET"

\* LockState of src/face_locking.py, as the frame loop uses it.
LockState == {"SEARCHING", "LOCKED"}

MovementStatus == {"NO_FACE", "MOVE_LEFT", "MOVE_RIGHT", "CENTERED"}

\* The target face object returned by process_frame (its box), or None.
Faces == {[x1 |-> x, y1 |-> 10, x2 |-> x + FaceSize, y2 |-> 10 + FaceSize] : x \in FaceLefts}

Max(a, b) == IF a >= b THEN a ELSE b
Min(a, b) == IF a <= b THEN a ELSE b

VARIABLES
    pc,                 \* position of the main thread in run()
    openable,           \* camera indices that open on this machine
    cap,                \* index of the opened capture, or -1
    now,                \* latest wall-clock reading
    last_heartbeat,     \* self.last_heartbeat
    last_publish_time,  \* self.last_publish_time
    snapshot_sent,      \* self.snapshot_sent
    last_status,        \* self.last_status
    lock_state,         \* locals of the latest loop iteration
    target_face,
    status,
    face_crop,
    current_time,
    published,          \* messages handed to client.publish by the latest step
    loop_running,       \* the client's network loop (loop_start .. loop_stop)
    teardown,           \* calls made after the loop, in order
    \* history of the run, used to state the properties
    episode_crops,      \* crops produced in the current lock episode
    episode_visible,    \* region-present frames in the current lock episode (0, 1, 2 = many)
    earlier_crop,       \* an earlier lock episode produced a crop
    held_status,        \* status computed on the latest LOCKED frame with a region
    last_beat,          \* who published the latest heartbeat, and when
    publish_times,      \* gate times of the latest movement publishes, oldest first
    image_published,    \* a movement message with face_image was published in this episode
    heartbeat_check_time, \* clock reading of the latest heartbeat check (line 195)
    run_beat_times      \* timestamps of the latest heartbeats of the frame loop, oldest first

vars == <<pc, openable, cap, now, last_heartbeat, last_publish_time, snapshot_sent,
          last_status, lock_state, target_face, status, face_crop, current_time, published,
          loop_running, teardown, episode_crops, episode_visible,
          held_status, earlier_crop, last_beat, publish_times,
          image_published, heartbeat_check_time, run_beat_times>>

controller == <<last_heartbeat, last_publish_time, snapshot_sent, last_status>>
locals == <<lock_state, target_face, status, face_crop, current_time>>
history == <<episode_crops, episode_visible, earlier_crop, held_status, publish_times,
             image_published, heartbeat_check_time, run_beat_times>>

\* The latest three entries of a stream, oldest first.
Remember(log, m) == IF Len(log) < 3 THEN Append(log, m) ELSE Append(Tail(log), m)

\* ------------------------------------------------------ message payloads
\* publish_heartbeat: payload of one heartbeat.
HeartbeatPayload(ts) == [node |-> "pc_vision", status |-> "ONLINE", timestamp |-> ts]

\* cv2.imencode('.jpg', ..., quality 70) then base64: a lossy encoding of the crop.
EncodeImage(crop) == [format |-> "jpeg70/base64", w |-> crop.x2 - crop.x1, h |-> crop.y2 - crop.y1]

\* publish_movement: payload of one movement message; face_image only when given.
MovementPayload(st, confidence, target, locked, face_image, ts) ==
    LET payload == [status |-> st, confidence |-> confidence, target |-> target,
                    locked |-> locked, timestamp |-> ts]
    IN IF face_image # None
       THEN payload @@ [face_image |-> EncodeImage(face_image)]
       ELSE payload

\* ------------------------------------------------------ camera acquisition
\* _open_any_camera, line 44: the index handed to cv2.VideoCapture on the try for idx.
ProbedIndex(idx) == 0

\* _open_any_camera: the tries, in order, whose capture opens.
OpeningTries(indices, canOpen) == {i \in 1..Len(indices) : ProbedIndex(indices[i]) \in canOpen}

\* _open_any_camera: the opened device, or -1 when RuntimeError is raised.
OpenAnyCameraResult(indices, canOpen) ==
    LET tries == OpeningTries(indices, canOpen)
    IN IF tries = {} THEN -1
       ELSE ProbedIndex(indices[CHOOSE i \in tries : \A j \in tries : i <= j])

\* run(), line 120: cap = _open_any_camera(); the RuntimeError is not caught.
OpenAnyCamera ==
    /\ pc = "open_camera"
    /\ LET c == OpenAnyCameraResult(CAMERA_INDICES, openable)
       IN /\ cap' = c
          /\ pc' = IF c = -1 THEN "fatal" ELSE "loop"
    /\ published' = <<>>
    /\ UNCHANGED <<openable, now, controller, locals, loop_running, teardown,
                   history, last_beat>>

\* ------------------------------------------------- movement decision engine
\* Lines 165-166: cx_norm = ((x1 + x2) / 2.0) / W, as an exact fraction.
CxNorm(f, W) == [num |-> f.x1 + f.x2, den |-> 2 * W]

\* Mutant: the lower comparison is inclusive.
Below_Inclusive(q, tenths) == 10 * q.num <= tenths * q.den

\* cx_norm < tenths / 10 and cx_norm > tenths / 10.
Below(q, tenths) == 10 * q.num < tenths * q.den
Above(q, tenths) == 10 * q.num > tenths * q.den

\* Lines 170-175: the deadband.
Deadband(cx_norm) ==
    IF Below(cx_norm, DEADBAND_LO) THEN "MOVE_LEFT"
    ELSE IF Above(cx_norm, DEADBAND_HI) THEN "MOVE_RIGHT"
    ELSE "CENTERED"

\* Lines 182-185: hold the last command while the target is not re-detected.
HoldStatus(last) == IF last = "NO_FACE" THEN "CENTERED" ELSE last

\* Mutant: a LOCKED frame without a region falls back to NO_FACE (no hold branch).
DecideStatus_NoHold(ls, tf, last) ==
    IF ls = "LOCKED" /\ tf # None THEN Deadband(CxNorm(tf, FrameWidth)) ELSE "NO_FACE"

\* Lines 137-185: the status local at the end of the branch.
DecideStatus(ls, tf, last) ==
    IF ls = "SEARCHING" THEN "NO_FACE"
    ELSE IF ls = "LOCKED"
         THEN IF tf # None THEN Deadband(CxNorm(tf, FrameWidth)) ELSE HoldStatus(last)
         ELSE "NO_FACE"

\* Mutant: the held command is forgotten when the target is lost.
LastStatusAfter_ResetOnSearch(ls, tf, last) ==
    IF ls = "LOCKED" /\ tf # None THEN Deadband(CxNorm(tf, FrameWidth))
    ELSE IF ls = "SEARCHING" THEN "CENTERED"
    ELSE last

\* Mutant: line 178 is run on every frame, whatever the branch.
LastStatusAfter_EveryFrame(ls, tf, last) ==
    IF ls = "LOCKED" /\ tf # None THEN Deadband(CxNorm(tf, FrameWidth))
    ELSE IF ls = "LOCKED" THEN HoldStatus(last)
    ELSE "NO_FACE"

\* Line 178: self.last_status after the branch.
LastStatusAfter(ls, tf, last) ==
    IF ls = "LOCKED" /\ tf # None THEN Deadband(CxNorm(tf, FrameWidth)) ELSE last

\* ------------------------------------------------------------ snapshot gate
\* Mutant: the crop is taken whenever a face is reported, whatever the phase.
TakesSnapshot_AnyPhase(ls, tf, sent) == tf # None /\ ~sent

\* Lines 146-152: the crop is taken on this frame.
TakesSnapshot(ls, tf, sent) == ls = "LOCKED" /\ tf # None /\ ~sent

\* Lines 153-160: the padded box, clamped to the frame; frame[y1:y2, x1:x2].
CropBox(f, W, H) ==
    [x1 |-> Max(0, f.x1 - PAD), y1 |-> Max(0, f.y1 - PAD),
     x2 |-> Min(W, f.x2 + PAD), y2 |-> Min(H, f.y2 + PAD)]

\* Lines 138, 160: the face_crop local at the end of the branch.
FaceCrop(ls, tf, sent) ==
    IF TakesSnapshot(ls, tf, sent) THEN CropBox(tf, FrameWidth, FrameHeight) ELSE None

\* Mutant: the flag is also reset when the region is absent on a LOCKED frame.
SnapshotSentAfter_ResetOnAbsent(ls, tf, sent) ==
    IF ls = "SEARCHING" \/ tf = None THEN FALSE
    ELSE IF TakesSnapshot(ls, tf, sent) THEN TRUE
    ELSE sent

\* Mutant: the flag is not reset on a SEARCHING frame.
SnapshotSentAfter_NoReset(ls, tf, sent) ==
    IF TakesSnapshot(ls, tf, sent) THEN TRUE ELSE sent

\* Mutant: the flag is not set when the crop is taken.
SnapshotSentAfter_NoMark(ls, tf, sent) ==
    IF ls = "SEARCHING" THEN FALSE ELSE sent

\* Lines 143-144, 161: self.snapshot_sent after the branch.
SnapshotSentAfter(ls, tf, sent) ==
    IF ls = "SEARCHING" THEN FALSE
    ELSE IF TakesSnapshot(ls, tf, sent) THEN TRUE
    ELSE sent

\* -------------------------------------------------------- publish scheduler
\* Mutant: the gate is strict.
MovementGate_Strict(t, last) == t - last > MOVEMENT_INTERVAL

\* Line 189: the 10 Hz gate.
MovementGate(t, last) == t - last >= MOVEMENT_INTERVAL

\* Mutant: the heartbeat check is an elif of the movement gate.
HeartbeatGate_Elif(t, last) ==
    t - last > HEARTBEAT_INTERVAL /\ ~MovementGate(t, last_publish_time)

\* Mutant: the heartbeat gate compares with the time of the last movement
\* publish.
HeartbeatGate_AgainstPublishTime(t, last) == t - last_publish_time > HEARTBEAT_INTERVAL

\* Mutant: the heartbeat gate is inclusive.
HeartbeatGate_Inclusive(t, last) == t - last >= HEARTBEAT_INTERVAL

\* Line 195: the heartbeat gate.
HeartbeatGate(t, last) == t - last > HEARTBEAT_INTERVAL

\* Line 190: is_locked.
IsLocked(st) == st # "NO_FACE"

\* Mutant: locked is not passed, so publish_movement uses its default, False.
MovementMessage_DefaultLocked(st, crop, ts) ==
    [topic |-> TOPIC_MOVEMENT,
     payload |-> MovementPayload(st, 1, TARGET_NAME, FALSE, crop, ts)]

\* Mutant: the message carries the status and the crop of the frame before.
MovementMessage_PreviousFrame(st, crop, ts) ==
    [topic |-> TOPIC_MOVEMENT,
     payload |-> MovementPayload(IF status = Unset THEN st ELSE status, 1, TARGET_NAME,
                                 IsLocked(st), face_crop, ts)]

\* Line 191: what publish_movement hands to the client for this frame.
MovementMessage(st, crop, ts) ==
    [topic |-> TOPIC_MOVEMENT,
     payload |-> MovementPayload(st, 1, TARGET_NAME, IsLocked(st), crop, ts)]

\* Lines 110-116: what publish_heartbeat hands to the client.
HeartbeatMessage(ts) == [topic |-> TOPIC_HEARTBEAT, payload |-> HeartbeatPayload(ts)]

\* self.last_publish_time after line 192.
LastPublishTimeAfter(admit, t, last) == IF admit THEN t ELSE last

\* self.last_heartbeat after line 197 (a second reading of the clock).
LastHeartbeatAfter(admit, t, last) == IF admit THEN t ELSE last

\* ---------------------------------------------------------------- frame loop
\* One iteration of the while loop, lines 125-201, for a frame that was read:
\*   ls, tf  what process_frame returns; quit: the key read by waitKey is 'q';
\*   d0      clock advance since the previous reading, up to line 188;
\*   d1      clock advance from line 188 to line 195 (publish_movement reads
\*           its timestamp at the end of it);
\*   d2      clock advance from line 195 to line 197 (publish_heartbeat reads
\*           its timestamp at the end of it).
ProcessFrame(ls, tf, d0, d1, d2, quit) ==
    /\ pc = "loop"
    /\ LET st == DecideStatus(ls, tf, last_status)
           crop == FaceCrop(ls, tf, snapshot_sent)
           t188 == now + d0
           admit == MovementGate(t188, last_publish_time)
           t195 == t188 + d1
           beat == HeartbeatGate(t195, last_heartbeat)
           t197 == t195 + d2
       IN /\ (~beat => d2 = 0)
          /\ lock_state' = ls
          /\ target_face' = tf
          /\ status' = st
          /\ face_crop' = crop
          /\ current_time' = t188
          /\ snapshot_sent' = SnapshotSentAfter(ls, tf, snapshot_sent)
          /\ last_status' = LastStatusAfter(ls, tf, last_status)
          /\ last_publish_time' = LastPublishTimeAfter(admit, t188, last_publish_time)
          /\ last_heartbeat' = LastHeartbeatAfter(beat, t197, last_heartbeat)
          /\ published' = (IF admit THEN <<MovementMessage(st, crop, t195)>> ELSE <<>>)
                          \o (IF beat THEN <<HeartbeatMessage(t197)>> ELSE <<>>)
          /\ now' = t197
          /\ last_beat' = IF beat THEN [by |-> "run", at |-> t197] ELSE last_beat
          /\ publish_times' = IF admit
                              THEN Remember(publish_times, t188)
                              ELSE publish_times
          /\ episode_crops' = IF ls = "SEARCHING" THEN 0
                              ELSE Min(2, episode_crops + (IF crop # None THEN 1 ELSE 0))
          /\ episode_visible' = IF ls = "SEARCHING" THEN 0
                                ELSE IF tf # None THEN Min(2, episode_visible + 1)
                                ELSE episode_visible
          /\ earlier_crop' = (earlier_crop \/ (ls = "SEARCHING" /\ episode_crops > 0))
          /\ held_status' = IF ls = "LOCKED" /\ tf # None THEN st ELSE held_status
          /\ image_published' = IF ls = "SEARCHING" THEN FALSE
                                ELSE (image_published \/ (admit /\ crop # None))
          /\ heartbeat_check_time' = t195
          /\ run_beat_times' = IF beat THEN Remember(run_beat_times, t197) ELSE run_beat_times
    /\ pc' = IF quit THEN "release" ELSE "loop"
    /\ UNCHANGED <<openable, cap, loop_running, teardown>>

\* Line 127: cap.read() fails; the loop is left before the frame is processed.
ReadFailure ==
    /\ pc = "loop"
    /\ pc' = "release"
    /\ published' = <<>>
    /\ UNCHANGED <<openable, cap, now, controller, locals, loop_running,
                   teardown, history, last_beat>>

\* Mutant: the transport is stopped before the camera is released.
Teardown_StopFirst ==
    /\ pc = "release"
    /\ pc' = "done"
    /\ teardown' = teardown \o <<"loop_stop", "cap.release", "destroyAllWindows">>
    /\ loop_running' = FALSE
    /\ published' = <<>>
    /\ UNCHANGED <<openable, cap, now, controller, locals, history, last_beat>>

\* Lines 203-205, after the loop: cap.release(); cv2.destroyAllWindows();
\* self.client.loop_stop().
Teardown ==
    /\ pc = "release"
    /\ pc' = "done"
    /\ teardown' = teardown \o <<"cap.release", "destroyAllWindows", "loop_stop">>
    /\ loop_running' = FALSE
    /\ published' = <<>>
    /\ UNCHANGED <<openable, cap, now, controller, locals, history, last_beat>>

\* ------------------------------------------------------- transport callback
\* Mutant: on_connect records its heartbeat in self.last_heartbeat.
OnConnect_RecordsHeartbeat(d) ==
    /\ loop_running
    /\ pc \notin {"fatal", "done"}
    /\ now' = now + d
    /\ published' = <<HeartbeatMessage(now + d)>>
    /\ last_beat' = [by |-> "on_connect", at |-> now + d]
    /\ last_heartbeat' = now + d
    /\ UNCHANGED <<pc, openable, cap, last_publish_time, snapshot_sent, last_status,
                   locals, loop_running, teardown, history>>

\* Lines 89-91: on_connect, called on the client's network thread on every
\* (re)connection, d ticks after the latest clock reading.
OnConnect(d) ==
    /\ loop_running
    /\ pc \notin {"fatal", "done"}
    /\ now' = now + d
    /\ published' = <<HeartbeatMessage(now + d)>>
    /\ last_beat' = [by |-> "on_connect", at |-> now + d]
    /\ UNCHANGED <<pc, openable, cap, controller, locals, loop_running, teardown, history>>

\* ------------------------------------------------------------ specification
\* The state when __init__ has returned: lines 58-61 and 81-87.
Init ==
    /\ pc = "open_camera"
    /\ openable \in OpenableSets
    /\ cap = -1
    /\ now = StartTime
    /\ last_heartbeat = 0
    /\ last_publish_time = 0
    /\ snapshot_sent = FALSE
    /\ last_status = "CENTERED"
    /\ lock_state = Unset
    /\ target_face = None
    /\ status = Unset
    /\ face_crop = None
    /\ current_time = 0
    /\ published = <<>>
    /\ loop_running = TRUE
    /\ teardown = <<>>
    /\ episode_crops = 0
    /\ episode_visible = 0
    /\ held_status = Unset
    /\ earlier_crop = FALSE
    /\ last_beat = None
    /\ publish_times = <<>>
    /\ image_published = FALSE
    /\ heartbeat_check_time = 0
    /\ run_beat_times = <<>>

Frame ==
    \E ls \in LockState, tf \in Faces \cup {None}, d0 \in ClockSteps,
       d1 \in ClockDrifts, d2 \in ClockDrifts, quit \in BOOLEAN :
        /\ now + d0 + d1 + d2 <= MaxTime
        /\ ProcessFrame(ls, tf, d0, d1, d2, quit)

Connect ==
    \E d \in ClockSteps :
        /\ now + d <= MaxTime
        /\ OnConnect(d)

Next ==
    \/ OpenAnyCamera
    \/ Frame
    \/ ReadFailure
    \/ Teardown
    \/ Connect

Spec == Init /\ [][Next]_vars

\* The same node followed over more than 5 s: the oracle reports no region,
\* and the transport connects before the frame loop starts.
FrameTiming ==
    \E ls \in LockState, d0 \in ClockSteps, d1 \in ClockDrifts, d2 \in ClockDrifts,
       quit \in BOOLEAN :
        /\ now + d0 + d1 + d2 <= MaxTimingTime
        /\ ProcessFrame(ls, None, d0, d1, d2, quit)

ConnectTiming ==
    \E d \in ClockSteps :
        /\ pc = "open_camera"
        /\ now + d <= MaxTime
        /\ OnConnect(d)

NextTiming ==
    \/ OpenAnyCamera
    \/ FrameTiming
    \/ ReadFailure
    \/ Teardown
    \/ ConnectTiming

SpecTiming == Init /\ [][NextTiming]_vars

\* The node while frames keep arriving (no read failure, no quit key) and
\* the clock keeps advancing: again and again a frame is read, and again
\* and again one is read at least one tick after the reading before, up to
\* the end of the time followed.
FrameLive ==
    \E ls \in LockState, d0 \in ClockSteps, d1 \in ClockDrifts, d2 \in ClockDrifts :
        /\ now + d0 + d1 + d2 <= MaxTimingTime
        /\ ProcessFrame(ls, None, d0, d1, d2, FALSE)

FrameAdvance ==
    \E ls \in LockState, d1 \in ClockDrifts, d2 \in ClockDrifts :
        /\ now + 1 + d1 + d2 <= MaxTimingTime
        /\ ProcessFrame(ls, None, 1, d1, d2, FALSE)

NextLive ==
    \/ OpenAnyCamera
    \/ FrameLive
    \/ ConnectTiming

SpecLive == Init /\ [][NextLive]_vars /\ WF_vars(FrameLive) /\ WF_vars(FrameAdvance)

TypeOK ==
    /\ pc \in {"open_camera", "fatal", "loop", "release", "done"}
    /\ now \in StartTime..MaxTime
    /\ last_status \in MovementStatus
    /\ snapshot_sent \in BOOLEAN
    /\ Len(published) <= 2

\* ================================================================ properties
\* The messages of one topic among those published by the latest step.
OnTopic(topic) == {published[i] : i \in {j \in DOMAIN published : published[j].topic = topic}}
MovementsPublished == OnTopic(TOPIC_MOVEMENT)
HeartbeatsPublished == OnTopic(TOPIC_HEARTBEAT)
HasImage(m) == "face_image" \in DOMAIN m.payload

\* C1: on every frame whose lock phase is SEARCHING the decided status is
\* NO_FACE, no face crop is produced, and a movement message published on
\* that frame carries no face_image.
C1_SearchingNoFaceNoImage ==
    lock_state = "SEARCHING" =>
        /\ status = "NO_FACE"
        /\ face_crop = None
        /\ \A m \in MovementsPublished : ~HasImage(m)

\* A SEARCHING frame on which a face is reported, after an episode that
\* produced a crop, whose movement message is published.
C1_Witness ==
    /\ lock_state = "SEARCHING"
    /\ target_face # None
    /\ earlier_crop
    /\ MovementsPublished # {}

\* C2: NO_FACE is decided only on SEARCHING frames: on every LOCKED frame,
\* with the region present or absent, the status is MOVE_LEFT, MOVE_RIGHT or
\* CENTERED.
C2_NoFaceOnlyWhileSearching ==
    /\ lock_state = "LOCKED" => status \in {"MOVE_LEFT", "MOVE_RIGHT", "CENTERED"}
    /\ status = "NO_FACE" => lock_state = "SEARCHING"

\* The very first LOCKED frame with a region has not happened yet, and the
\* frame is LOCKED without a region.
C2_Witness ==
    /\ lock_state = "LOCKED"
    /\ target_face = None
    /\ held_status = Unset
    /\ status = "CENTERED"

\* C3: on a LOCKED frame without a region the status is the one computed on
\* the most recent LOCKED frame that had a region (CENTERED if there was
\* none), and the frame leaves last_status unchanged.
C3_HoldLastStatus ==
    [][(lock_state' = "LOCKED" /\ target_face' = None) =>
          /\ status' = (IF held_status = Unset THEN "CENTERED" ELSE held_status)
          /\ last_status' = last_status]_vars

\* A LOCKED frame without a region, in an episode that had two frames with
\* a region, holds MOVE_RIGHT.
C3_Witness ==
    /\ lock_state = "LOCKED"
    /\ target_face = None
    /\ episode_visible = 2
    /\ held_status = "MOVE_RIGHT"
    /\ status = "MOVE_RIGHT"

\* C4: a lock episode produces at most one face crop.
C4_OneCropPerEpisode == episode_crops <= 1

\* A later frame with a region, in an episode that has produced its crop,
\* produces none.
C4_Witness ==
    /\ lock_state = "LOCKED"
    /\ target_face # None
    /\ face_crop = None
    /\ episode_visible = 2
    /\ episode_crops = 1

\* C5: every lock episode, also one that follows an episode with a crop and
\* a SEARCHING frame, produces its one crop on its first LOCKED frame with
\* a region, and on no other frame.
C5_NewEpisodeNewCrop ==
    lock_state = "LOCKED" =>
        /\ episode_crops = (IF episode_visible >= 1 THEN 1 ELSE 0)
        /\ (face_crop # None) <=> (target_face # None /\ episode_visible = 1)

\* The crop of a second episode.
C5_Witness ==
    /\ earlier_crop
    /\ lock_state = "LOCKED"
    /\ face_crop # None
    /\ episode_crops = 1

\* C6: after every frame snapshot_sent is true exactly when the current
\* episode has produced its crop; it is false after every SEARCHING frame
\* and goes from true to false only on a SEARCHING frame.
C6_SnapshotSentTracksEpisode ==
    [][/\ snapshot_sent' <=> (episode_crops' = 1)
       /\ lock_state' = "SEARCHING" => ~snapshot_sent'
       /\ (snapshot_sent /\ ~snapshot_sent') => lock_state' = "SEARCHING"]_vars

\* The flag has been reset by a SEARCHING frame after an episode with a crop.
C6_Witness ==
    /\ earlier_crop
    /\ lock_state = "SEARCHING"
    /\ ~snapshot_sent
    /\ episode_crops = 0

\* C7: a frame publishes a movement message iff its clock reading is at least
\* 0.1 s after last_publish_time, which then becomes that reading; so two
\* publishes are at least 0.1 s apart and three span at least 0.2 s.
C7_MovementGate ==
    [][/\ (MovementsPublished' # {}) <=>
              (current_time' - last_publish_time >= MOVEMENT_INTERVAL)
       /\ last_publish_time' =
              (IF MovementsPublished' # {} THEN current_time' ELSE last_publish_time)
       /\ \A i \in 1..(Len(publish_times') - 1) :
              publish_times'[i + 1] - publish_times'[i] >= MOVEMENT_INTERVAL
       /\ Len(publish_times') = 3 =>
              publish_times'[3] - publish_times'[1] >= 2 * MOVEMENT_INTERVAL]_vars

\* Three publishes, each exactly 0.1 s after the one before, followed by a
\* frame in the same tick that is not admitted.
C7_Witness ==
    /\ Len(publish_times) = 3
    /\ publish_times[3] - publish_times[2] = MOVEMENT_INTERVAL
    /\ publish_times[2] - publish_times[1] = MOVEMENT_INTERVAL
    /\ pc = "loop"
    /\ current_time = last_publish_time
    /\ published = <<>>

\* C8: after the heartbeat published on connect, no further heartbeat is
\* published until at least 5 s have elapsed since it; stated here for the
\* next heartbeat being one of the frame loop.
C8_HeartbeatOnConnectThenFiveSeconds ==
    [][(/\ last_beat # None
        /\ HeartbeatsPublished' # {}
        /\ last_beat.by = "on_connect"
        /\ last_beat'.by = "run") =>
          last_beat'.at - last_beat.at >= HEARTBEAT_INTERVAL]_vars

\* C9: every published movement message has locked = TRUE iff its status is
\* not NO_FACE, that is, iff the frame it is published on is LOCKED.
C9_LockedIffNotNoFace ==
    \A m \in MovementsPublished :
        /\ m.payload.locked <=> (m.payload.status # "NO_FACE")
        /\ m.payload.locked <=> (lock_state = "LOCKED")

\* A movement message published on a LOCKED frame without a region.
C9_Witness ==
    /\ lock_state = "LOCKED"
    /\ target_face = None
    /\ \E m \in MovementsPublished : m.payload.locked

\* C10: on a LOCKED frame with the region inside the frame the status is
\* MOVE_LEFT iff cxNorm < 0.4, MOVE_RIGHT iff cxNorm > 0.6 and CENTERED
\* otherwise, 0.4 and 0.6 included; last_status is that status.
\* (cxNorm < 0.4 iff 5 * (x1 + x2) < 4 * W; cxNorm > 0.6 iff 5 * (x1 + x2) > 6 * W.)
C10_Deadband ==
    (/\ lock_state = "LOCKED"
     /\ target_face # None
     /\ 0 <= target_face.x1 /\ target_face.x1 <= target_face.x2
     /\ target_face.x2 <= FrameWidth) =>
        LET s == target_face.x1 + target_face.x2
        IN /\ (status = "MOVE_LEFT") <=> (5 * s < 4 * FrameWidth)
           /\ (status = "MOVE_RIGHT") <=> (5 * s > 6 * FrameWidth)
           /\ (status = "CENTERED") <=> (5 * s >= 4 * FrameWidth /\ 5 * s <= 6 * FrameWidth)
           /\ last_status = status

\* A region whose centre is exactly at 0.4 of the width.
C10_Witness ==
    /\ lock_state = "LOCKED"
    /\ target_face # None
    /\ 5 * (target_face.x1 + target_face.x2) = 4 * FrameWidth
    /\ status = "CENTERED"

\* A heartbeat published by the latest step, by the frame loop or by on_connect.
RunBeat == HeartbeatsPublished # {} /\ last_beat.by = "run"
ConnectBeat == HeartbeatsPublished # {} /\ last_beat.by = "on_connect"

\* C11: a published movement message carries the status decided on the frame
\* it is published on, and face_image iff that frame produced a crop (then
\* the encoding of that crop).
C11_NothingCarriedOver ==
    \A m \in MovementsPublished :
        /\ m.payload.status = status
        /\ HasImage(m) <=> (face_crop # None)
        /\ HasImage(m) => m.payload.face_image = EncodeImage(face_crop)

\* The crop of the episode was taken on a frame the gate skipped; a later
\* frame of the episode is admitted and its message has no image.
C11_Witness ==
    /\ lock_state = "LOCKED"
    /\ snapshot_sent
    /\ ~image_published
    /\ face_crop = None
    /\ \E m \in MovementsPublished : ~HasImage(m) /\ m.payload.status = "MOVE_RIGHT"

C13_ConnectLeavesControllerState ==
    [][ConnectBeat' => UNCHANGED <<controller, locals, pc>>]_vars

\* The callback has run between two iterations of the frame loop.
C13_Witness ==
    /\ pc = "loop"
    /\ lock_state # Unset
    /\ ConnectBeat
    /\ snapshot_sent
    /\ last_heartbeat > 0

\* C14: once the loop has ended (quit key or read failure) the node goes on
\* to release the camera, close the display and stop the transport loop, in
\* this order, and the loop processes no frame and publishes nothing.
C14_GracefulTeardown ==
    /\ [](pc = "done" =>
            /\ teardown = <<"cap.release", "destroyAllWindows", "loop_stop">>
            /\ ~loop_running)
    /\ [](pc \in {"loop", "release"} => teardown = <<>> /\ loop_running)
    /\ [][(pc = "release" \/ pc = "done") =>
            /\ pc' \in {"release", "done"}
            /\ UNCHANGED <<controller, locals>>
            /\ MovementsPublished' = {}
            /\ ~RunBeat']_vars

\* The loop was left after at least one frame and the teardown is complete.
C14_Witness ==
    /\ pc = "done"
    /\ lock_state # Unset
    /\ Len(teardown) = 3

\* C15: camera acquisition opens the first configured index that can be
\* opened, and is fatal only if none of the configured indices can be opened.
C15_FirstOpenableIndex ==
    pc # "open_camera" =>
        LET ok == {i \in 1..Len(CAMERA_INDICES) : CAMERA_INDICES[i] \in openable}
        IN IF ok = {} THEN pc = "fatal"
           ELSE /\ pc # "fatal"
                /\ cap = CAMERA_INDICES[CHOOSE i \in ok : \A j \in ok : i <= j]

\* C16: snapshot_sent is true only if a movement message with face_image has
\* been published during the current lock episode.
C16_SnapshotIsSent == snapshot_sent => image_published

\* C19: last_status is always MOVE_LEFT, MOVE_RIGHT or CENTERED, so a LOCKED
\* frame without a region decides last_status itself (the NO_FACE fallback
\* is not taken).
C19_LastStatusNeverNoFace ==
    /\ last_status \in {"MOVE_LEFT", "MOVE_RIGHT", "CENTERED"}
    /\ (lock_state = "LOCKED" /\ target_face = None) => status = last_status

\* A SEARCHING frame after a frame that computed MOVE_RIGHT.
C19_Witness ==
    /\ lock_state = "SEARCHING"
    /\ status = "NO_FACE"
    /\ held_status = "MOVE_RIGHT"
    /\ last_status = "MOVE_RIGHT"

\* C20: a SEARCHING frame leaves last_status unchanged, and a lock episode
\* that begins with a LOCKED frame without a region decides the status of
\* the latest frame with a region of an earlier episode.
C20_HeldStatusSurvivesSearching ==
    [][/\ lock_state' = "SEARCHING" => last_status' = last_status
       /\ (/\ lock_state' = "LOCKED"
           /\ target_face' = None
           /\ episode_visible' = 0
           /\ held_status' # Unset) =>
              (status' = held_status' /\ status' # "NO_FACE")]_vars

\* A new episode, after one that had a crop, begins without a region and
\* repeats MOVE_LEFT.
C20_Witness ==
    /\ earlier_crop
    /\ lock_state = "LOCKED"
    /\ target_face = None
    /\ episode_visible = 0
    /\ held_status = "MOVE_LEFT"
    /\ status = "MOVE_LEFT"

\* C17: the frame loop publishes a heartbeat iff the reading of its check is
\* more than 5 s after last_heartbeat (exactly 5 s is not enough);
\* last_heartbeat then becomes a reading not earlier than that one, and two
\* heartbeats of the loop are more than 5 s apart.
C17_HeartbeatGate ==
    [][/\ RunBeat' <=> (heartbeat_check_time' - last_heartbeat > HEARTBEAT_INTERVAL)
       /\ RunBeat' => last_heartbeat' >= heartbeat_check_time'
       /\ \A i \in 1..(Len(run_beat_times') - 1) :
              run_beat_times'[i + 1] - run_beat_times'[i] > HEARTBEAT_INTERVAL]_vars

\* The loop publishes its second heartbeat on a check that reads 5.1 s after
\* the first.
C17_Witness ==
    /\ Len(run_beat_times) = 2
    /\ RunBeat
    /\ last_heartbeat = run_beat_times[2]
    /\ heartbeat_check_time = run_beat_times[1] + HEARTBEAT_INTERVAL + 1

\* A frame whose check reads exactly 5 s after last_heartbeat publishes no heartbeat.
C17_WitnessBoundary ==
    /\ pc = "loop"
    /\ heartbeat_check_time - last_heartbeat = HEARTBEAT_INTERVAL
    /\ HeartbeatsPublished = {}

\* Gate time of the latest movement publish, 0 before the first.
LatestPublishAt == IF publish_times = <<>> THEN 0 ELSE publish_times[Len(publish_times)]

====
